---- MODULE Spec2Model ----
(***************************************************************************)
(* soup.py: the recipe-driven updater of SourceMod includes and plugins,   *)
(* and its self-update.  One sequential process; the remote servers, the   *)
(* compiler and the local files are its environment.                       *)
(***************************************************************************)
EXTENDS Integers, Sequences, FiniteSets, TLC

(* ------------------------------------------------------------------ *)
(* Bounds of the model                                                  *)
(* ------------------------------------------------------------------ *)
\* kv_pairs that the manifests served to the followed runs carry in total
MaxEntries == 2
\* length of CFG["recipes"]
NumRecipes == 2
\* scheduled runs of the script ("once a day") that are followed
MaxRuns == 2

(* ------------------------------------------------------------------ *)
(* Bytes, text and the codecs                                           *)
(* ------------------------------------------------------------------ *)
\* bytes objects: sequences of 0..255; str objects: sequences of code points
CodecOk(v) == [ok |-> TRUE, val |-> v, exc |-> "none"]
CodecErr(e) == [ok |-> FALSE, val |-> <<>>, exc |-> e]

IsCont(b) == b >= 128 /\ b <= 191

RECURSIVE Utf8Decode(_)
\* bytes.decode("utf-8") and the text layer of open(..., encoding="utf-8").read()
Utf8Decode(b) ==
    IF b = <<>> THEN CodecOk(<<>>)
    ELSE LET b0 == Head(b)
             n == Len(b)
             width == IF b0 < 128 THEN 1
                      ELSE IF b0 >= 194 /\ b0 <= 223 /\ n >= 2 /\ IsCont(b[2]) THEN 2
                      ELSE IF b0 >= 224 /\ b0 <= 239 /\ n >= 3
                              /\ IsCont(b[2]) /\ IsCont(b[3])
                              /\ (b0 = 224 => b[2] >= 160)
                              /\ (b0 = 237 => b[2] < 160) THEN 3
                      ELSE 0
             cp == IF width = 1 THEN b0
                   ELSE IF width = 2 THEN (b0 - 192) * 64 + (b[2] - 128)
                   ELSE (b0 - 224) * 4096 + (b[2] - 128) * 64 + (b[3] - 128)
         IN  IF width = 0 THEN CodecErr("UnicodeDecodeError")
             ELSE LET rest == Utf8Decode(SubSeq(b, width + 1, n))
                  IN  IF rest.ok THEN CodecOk(<<cp>> \o rest.val) ELSE rest

RECURSIVE Utf8Encode(_)
\* str.encode("utf-8") and the text layer of write() on a utf-8 file
Utf8Encode(s) ==
    IF s = <<>> THEN <<>>
    ELSE LET c == Head(s)
             enc == IF c < 128 THEN <<c>>
                    ELSE IF c < 2048 THEN <<192 + (c \div 64), 128 + (c % 64)>>
                    ELSE <<224 + (c \div 4096), 128 + ((c \div 64) % 64),
                           128 + (c % 64)>>
         IN  enc \o Utf8Encode(Tail(s))

\* the UTF-8 signature EF BB BF of the "utf-8-sig" codec
BOM == <<239, 187, 191>>

HasBOM(b) == Len(b) >= 3 /\ SubSeq(b, 1, 3) = BOM

\* bytes.decode(CFG["encoding"])
Decode(encoding, b) ==
    IF encoding = "utf-8" THEN Utf8Decode(b)
    ELSE IF encoding = "utf-8-sig"
         THEN Utf8Decode(IF HasBOM(b) THEN SubSeq(b, 4, Len(b)) ELSE b)
    ELSE CodecOk(b)        \* latin-1: every byte is its code point

\* str.encode(CFG["encoding"])
Encode(encoding, s) ==
    IF encoding = "utf-8" THEN CodecOk(Utf8Encode(s))
    ELSE IF encoding = "utf-8-sig" THEN CodecOk(BOM \o Utf8Encode(s))
    ELSE IF \E i \in 1..Len(s) : s[i] > 255 THEN CodecErr("UnicodeEncodeError")
    ELSE CodecOk(s)

(* ------------------------------------------------------------------ *)
(* Hashes                                                               *)
(* ------------------------------------------------------------------ *)
\* sha256(data).hexdigest(): a non-empty digest, one per byte string
get_data_hash(data) == <<Len(data)>> \o data

\* the "" that get_file_hash returns on UnicodeDecodeError
NoHash == <<>>

\* a get_file_hash without the except clause: UnicodeDecodeError propagates too
get_file_hash_Uncaught(encoding, data) ==
    LET text == Utf8Decode(data)
    IN  IF ~text.ok THEN [raised |-> TRUE, hash |-> NoHash]
        ELSE LET bytes == Encode(encoding, text.val)
             IN  IF bytes.ok THEN [raised |-> FALSE, hash |-> get_data_hash(bytes.val)]
                 ELSE [raised |-> TRUE, hash |-> NoHash]

\* get_file_hash(file) on a file of the given bytes, opened with encoding="utf-8":
\* file.read() decodes utf-8, .encode(CFG["encoding"]) re-encodes, then sha256.
\* Only UnicodeDecodeError is caught; a UnicodeEncodeError propagates.
get_file_hash(encoding, data) ==
    LET text == Utf8Decode(data)
    IN  IF ~text.ok THEN [raised |-> FALSE, hash |-> NoHash]
        ELSE LET raw == Encode(encoding, text.val)
             IN  IF raw.ok THEN [raised |-> FALSE, hash |-> get_data_hash(raw.val)]
                 ELSE [raised |-> TRUE, hash |-> NoHash]

(* ------------------------------------------------------------------ *)
(* Program constants                                                    *)
(* ------------------------------------------------------------------ *)
\* semver.VersionInfo.parse("1.6.2"): <<major, minor, patch>>
SCRIPT_VERSION == <<1, 6, 2>>

GH_RELEASES == "https://api.github.com/repos/CreamySoup/soup/releases/latest"

GH_REF_TAGS == "https://api.github.com/repos/CreamySoup/soup/git/ref/tags/"

\* a list of the sections that puts the plugins first
root_sections_PluginsFirst == <<"plugins", "includes", "updater">>

root_sections == <<"includes", "plugins", "updater">>

(* ------------------------------------------------------------------ *)
(* The environment's values                                             *)
(* ------------------------------------------------------------------ *)
Names == {"foo", "bar"}

\* text "A", a lone byte E9 (no UTF-8, e-acute in latin-1), and
\* "A" behind a UTF-8 signature
TextA == <<65>>
LoneE9 == <<233>>
SigA == BOM \o <<65>>

Contents == {TextA, LoneE9, SigA}

Encodings == {"utf-8", "latin-1", "utf-8-sig"}

\* CFG["recipes"]: every URL https, or the last one http
RecipeLists ==
    {[i \in 1..NumRecipes |-> "https://r/recipe.json"],
     [i \in 1..NumRecipes |-> IF i = NumRecipes THEN "http://r/recipe.json"
                                               ELSE "https://r/recipe.json"]}

SourceUrl(n) == "https://x/" \o n

InsecureSourceUrl(n) == "http://x/" \o n

ZipUrls == {"https://api.github.com/zipball", "http://mirror/zipball"}

\* the URLs of the model on which url.startswith("https://") is true
HttpsUrls ==
    {"https://r/recipe.json", "https://api.github.com/zipball", GH_RELEASES, GH_REF_TAGS}
        \cup {SourceUrl(n) : n \in Names}

startswith_https(url) == url \in HttpsUrls

\* HTTP status codes a server answers with
StatusCodes == {200, 403, 503}

\* int(str(code)[:1]) of a three-digit status code
http_code_first_digit(code) == code \div 100

\* a manifest entry (kv_pair): null, or a JSON object as its ordered items
NullEntry == [null |-> TRUE, items |-> <<>>]
Obj(items) == [null |-> FALSE, items |-> items]
KV(k, v) == [key |-> k, value |-> v]

Entries ==
    {NullEntry}
        \cup {Obj(<<KV("name", "foo"), KV("source_url", SourceUrl("foo"))>>),
              Obj(<<KV("source_url", SourceUrl("bar")), KV("name", "bar")>>),
              Obj(<<KV("source_url", SourceUrl("bar"))>>),
              Obj(<<KV("name", "foo"), KV("about", "x"),
                    KV("source_url", InsecureSourceUrl("foo"))>>)}

\* tag_name values of the latest release; Valid is whether semver parses it
Tags == {[valid |-> TRUE, ver |-> v] :
            v \in {<<0, 9, 9>>, <<1, 6, 1>>, <<1, 6, 2>>, <<1, 7, 0>>, <<2, 0, 0>>}}
        \cup {[valid |-> FALSE, ver |-> <<0, 0, 0>>]}

\* X-RateLimit-* headers of a GitHub response: which are present, and the value
\* of Remaining.  GitHub sends all four, another server none.
Headers ==
    {h \in [limit : BOOLEAN, remaining : BOOLEAN, used : BOOLEAN, reset : BOOLEAN,
            remaining_value : {0, 7}] :
        /\ h.limit = h.remaining /\ h.reset = h.remaining /\ h.used = h.remaining
        /\ (~h.remaining => h.remaining_value = 7)}

\* a requests.Response: status_code and headers
Responses == [status_code : StatusCodes, headers : Headers]

NoReq == [status_code |-> 0, headers |-> [limit |-> FALSE, remaining |-> FALSE,
              used |-> FALSE, reset |-> FALSE, remaining_value |-> 7]]

(* ------------------------------------------------------------------ *)
(* Files                                                                *)
(* ------------------------------------------------------------------ *)
IncPath(n) == "scripting/include/" \o n \o ".inc"
SrcPath(n) == "scripting/" \o n \o ".sp"
CwdSmx(n) == "./" \o n \o ".smx"
PluginSmx(n) == "plugins/" \o n \o ".smx"
CompilerPath == "scripting/spcomp"
SelfPath == "soup.py"
ReqsPath == "requirements.txt"

SourcePaths == {IncPath(n) : n \in Names} \cup {SrcPath(n) : n \in Names}

Paths == SourcePaths \cup {CwdSmx(n) : n \in Names} \cup {PluginSmx(n) : n \in Names}
            \cup {CompilerPath, SelfPath, ReqsPath}

Missing == [exists |-> FALSE, data |-> <<>>]
File(d) == [exists |-> TRUE, data |-> d]

(* ------------------------------------------------------------------ *)
(* State                                                                *)
(* ------------------------------------------------------------------ *)
VARIABLES
    cfg,            \* CFG: encoding and recipes
    fs,             \* the files: path -> Missing or File(bytes)
    run,            \* which run of the script this is
    pc,             \* where the process is
    err,            \* the exception that ended the process, or "none"
    req,            \* self_update: the last release-API response
    latest_ver,     \* self_update: latest_ver
    zip_url,        \* self_update: zip_url
    archive,        \* self_update: which members file_zip holds
    ri,             \* main: index of the recipe of the for loop
    sec,            \* check_for_updates: index into root_sections
    taken,          \* kv_pairs read from manifests so far, over all runs
    kv_pair,        \* the current kv_pair
    ki,             \* index of the current item of kv_pair
    cnt,            \* the four num_* counters
    inc,            \* include_name, local_inc_path, inc_exists_locally
    plg,            \* plugin_name, local_source_path, code_exists_locally
    remote,         \* remote_inc / remote_code of the current item
    hashes_match,   \* hashes_match of the current item
    net,            \* the request the last step made and the status it got
    warned,         \* the pass has printed the warning about the updater key
    ev              \* what was done for the current kv_pair, or by self_update,
                    \* in order

vars == <<cfg, fs, run, pc, err, req, latest_ver, zip_url, archive, ri, sec, taken,
          kv_pair, ki, cnt, inc, plg, remote, hashes_match, net, warned, ev>>

suVars == <<req, latest_ver, zip_url, archive>>
passVars == <<sec, taken, kv_pair, ki, cnt, inc, plg, remote, hashes_match, warned, ev>>
passLocals == <<sec, taken, kv_pair, ki, cnt, inc, plg, remote, hashes_match, warned>>

ZeroCnt == [incs_processed |-> 0, incs_updated |-> 0,
            plugins_processed |-> 0, plugins_updated |-> 0]

\* name, path and exists flag of a section before its first "name" key: unbound
Unbound == [bound |-> FALSE, name |-> "", path |-> "", exists |-> FALSE]

\* a request for url answered with the status code; NoNet: no request
Request(url, code) == [url |-> url, status |-> code]
NoNet == [url |-> "", status |-> 0]

NoVer == <<0, 0, 0>>
NoArchive == [reqs |-> FALSE, soup |-> FALSE]

\* the frame of check_for_updates before line 240
FreshPass ==
    /\ sec = 1 /\ kv_pair = NullEntry /\ ki = 0 /\ cnt = ZeroCnt
    /\ inc = Unbound /\ plg = Unbound /\ remote = <<>> /\ hashes_match = FALSE
    /\ warned = FALSE
    /\ ev = <<>>

Init ==
    /\ cfg \in [encoding : Encodings, recipes : RecipeLists]
    /\ \E src \in {Missing} \cup {File(d) : d \in Contents}, compiler \in BOOLEAN :
          fs = [p \in Paths |->
                   IF p \in SourcePaths THEN src
                   ELSE IF p = CompilerPath THEN (IF compiler THEN File(<<>>) ELSE Missing)
                   ELSE IF p = SelfPath THEN File(SCRIPT_VERSION)
                   ELSE Missing]
    /\ run = 1
    /\ pc = "self_update"
    /\ err = "none"
    /\ req = NoReq /\ latest_ver = NoVer /\ zip_url = "" /\ archive = NoArchive
    /\ ri = 1
    /\ taken = 0
    /\ FreshPass
    /\ net = NoNet

(* ------------------------------------------------------------------ *)
(* Leaving the process                                                  *)
(* ------------------------------------------------------------------ *)
\* an exception nobody catches: the interpreter prints it and exits non-zero
Raise(e) == pc' = "crashed" /\ err' = e

(* ------------------------------------------------------------------ *)
(* self_update                                                          *)
(* ------------------------------------------------------------------ *)
\* a comparison that takes an equal version for an older one
VerGE_Strict(a, b) ==
    \/ a[1] > b[1]
    \/ a[1] = b[1] /\ a[2] > b[2]
    \/ a[1] = b[1] /\ a[2] = b[2] /\ a[3] > b[3]

\* semver's >= on <<major, minor, patch>>
VerGE(a, b) ==
    \/ a[1] > b[1]
    \/ a[1] = b[1] /\ a[2] > b[2]
    \/ a[1] = b[1] /\ a[2] = b[2] /\ a[3] >= b[3]

\* verify_gh_api_req(req): "raise", "False" or "True"
verify_gh_api_req(r) ==
    IF r.status_code >= 400
    THEN IF http_code_first_digit(r.status_code) = 5 THEN "False" ELSE "raise"
    ELSE IF /\ r.headers.limit /\ r.headers.remaining
            /\ r.headers.used /\ r.headers.reset
            /\ r.headers.remaining_value <= 0
         THEN "False"
         ELSE "True"

\* self_update returns to main
SelfUpdateReturn ==
    /\ pc' = "main_loop" /\ err' = err
    /\ zip_url' = "" /\ archive' = NoArchive

\* lines 168-184: the latest release is queried and compared
SelfUpdateCheck ==
    /\ pc = "self_update"
    /\ \E r \in Responses, tag \in Tags, z \in ZipUrls :
          /\ req' = r
          /\ net' = Request(GH_RELEASES, r.status_code)
          /\ LET v == verify_gh_api_req(r)
             IN  IF v = "raise"
                 THEN Raise("HTTPError") /\ UNCHANGED <<latest_ver, zip_url, archive>>
                 ELSE IF v = "False" THEN SelfUpdateReturn /\ UNCHANGED latest_ver
                 ELSE IF ~tag.valid
                 THEN Raise("ValueError") /\ UNCHANGED <<latest_ver, zip_url, archive>>
                 ELSE IF VerGE(SCRIPT_VERSION, tag.ver)
                 THEN SelfUpdateReturn /\ latest_ver' = tag.ver
                 ELSE /\ latest_ver' = tag.ver
                      /\ zip_url' = z
                      /\ pc' = "su_ref"
                      /\ UNCHANGED <<err, archive>>
    /\ UNCHANGED <<cfg, fs, run, ri>>
    /\ UNCHANGED passVars

\* lines 186-198: the tag's ref is queried
SelfUpdateRef ==
    /\ pc = "su_ref"
    /\ \E r \in Responses :
          /\ req' = r
          /\ net' = Request(GH_REF_TAGS, r.status_code)
          /\ LET v == verify_gh_api_req(r)
             IN  IF v = "raise"
                 THEN Raise("HTTPError") /\ UNCHANGED <<latest_ver, zip_url, archive>>
                 ELSE IF v = "False" THEN SelfUpdateReturn /\ UNCHANGED latest_ver
                 ELSE /\ pc' = "su_download"
                      /\ UNCHANGED <<err, latest_ver, zip_url, archive>>
    /\ UNCHANGED <<cfg, fs, run, ri>>
    /\ UNCHANGED passVars

\* lines 200-201: urlopen(zip_url), with no check of the scheme and no except
SelfUpdateDownload ==
    /\ pc = "su_download"
    /\ \E code \in StatusCodes, has_reqs \in BOOLEAN, has_soup \in BOOLEAN :
          /\ net' = Request(zip_url, code)
          /\ IF code # 200
             THEN Raise("HTTPError") /\ UNCHANGED archive
             ELSE /\ archive' = [reqs |-> has_reqs, soup |-> has_soup]
                  /\ pc' = "su_write_reqs"
                  /\ UNCHANGED err
    /\ req' = NoReq
    /\ UNCHANGED <<cfg, fs, run, ri, latest_ver, zip_url>>
    /\ UNCHANGED passVars

\* lines 204-211: requirements.txt is opened "wb+" (emptied), then written
SelfUpdateWriteReqs ==
    /\ pc = "su_write_reqs"
    /\ IF archive.reqs
       THEN /\ fs' = [fs EXCEPT ![ReqsPath] = File(latest_ver)]
            /\ ev' = Append(ev, "write_reqs")
            /\ pc' = "su_pipenv"
            /\ UNCHANGED err
       ELSE /\ fs' = [fs EXCEPT ![ReqsPath] = File(<<>>)]
            /\ Raise("KeyError")
            /\ UNCHANGED ev
    /\ net' = NoNet
    /\ UNCHANGED <<cfg, run, ri>>
    /\ UNCHANGED suVars
    /\ UNCHANGED passLocals

\* a pipenv install without check=True: its exit status is not looked at
SelfUpdatePipenv_Unchecked ==
    /\ pc = "su_pipenv"
    /\ \E returncode \in {0, 1} :
          /\ pc' = "su_write_self"
          /\ ev' = Append(ev, IF returncode = 0 THEN "pipenv_0" ELSE "pipenv_nonzero")
          /\ UNCHANGED err
    /\ net' = NoNet
    /\ UNCHANGED <<cfg, fs, run, ri>>
    /\ UNCHANGED suVars
    /\ UNCHANGED passLocals

\* line 213: pipenv install, check=True
SelfUpdatePipenv ==
    /\ pc = "su_pipenv"
    /\ \E returncode \in {0, 1} :
          IF returncode = 0
          THEN pc' = "su_write_self" /\ ev' = Append(ev, "pipenv_0") /\ UNCHANGED err
          ELSE Raise("CalledProcessError") /\ ev' = Append(ev, "pipenv_nonzero")
    /\ net' = NoNet
    /\ UNCHANGED <<cfg, fs, run, ri>>
    /\ UNCHANGED suVars
    /\ UNCHANGED passLocals

\* lines 215-220: the script's own file is opened "wb+" (emptied), then written
SelfUpdateWriteSelf ==
    /\ pc = "su_write_self"
    /\ IF archive.soup
       THEN /\ fs' = [fs EXCEPT ![SelfPath] = File(latest_ver)]
            /\ ev' = Append(ev, "write_self")
            /\ pc' = "su_restart"
            /\ UNCHANGED err
       ELSE /\ fs' = [fs EXCEPT ![SelfPath] = File(<<>>)]
            /\ Raise("KeyError")
            /\ UNCHANGED ev
    /\ net' = NoNet
    /\ UNCHANGED <<cfg, run, ri>>
    /\ UNCHANGED suVars
    /\ UNCHANGED passLocals

\* a restart without the sys.exit(0) behind it: self_update returns to main
SelfUpdateRestart_Returns ==
    /\ pc = "su_restart"
    /\ \E returncode \in {0, 1} :
          IF returncode = 0
          THEN pc' = "main_loop" /\ UNCHANGED err
          ELSE Raise("CalledProcessError")
    /\ ev' = Append(ev, "restart")
    /\ net' = NoNet
    /\ UNCHANGED <<cfg, fs, run, ri>>
    /\ UNCHANGED suVars
    /\ UNCHANGED passLocals

\* lines 226-227: the new script runs as a child; then sys.exit(0), or
\* CalledProcessError when the child failed.  Either way main is not resumed.
SelfUpdateRestart ==
    /\ pc = "su_restart"
    /\ \E returncode \in {0, 1} :
          IF returncode = 0
          THEN pc' = "exited" /\ UNCHANGED err
          ELSE Raise("CalledProcessError")
    /\ ev' = Append(ev, "restart")
    /\ net' = NoNet
    /\ UNCHANGED <<cfg, fs, run, ri>>
    /\ UNCHANGED suVars
    /\ UNCHANGED passLocals

(* ------------------------------------------------------------------ *)
(* main and check_for_updates                                           *)
(* ------------------------------------------------------------------ *)
\* a get_url_contents that re-raises the HTTPError of a 5xx status as well
get_url_contents_Raise5xx(url, code) ==
    IF ~startswith_https(url) THEN "AssertionError"
    ELSE IF code = 200 THEN "bytes"
    ELSE "HTTPError"

\* get_url_contents(url) when the server answers with the status code:
\* "AssertionError", "HTTPError" (raised), "None" or "bytes" (returned)
get_url_contents(url, code) ==
    IF ~startswith_https(url) THEN "AssertionError"
    ELSE IF code = 200 THEN "bytes"
    ELSE IF http_code_first_digit(code) = 5 THEN "None"
    ELSE "HTTPError"

\* a return from check_for_updates that leaves the for loop of main as well
PassReturn_LeavesLoop == pc' = "done" /\ ri' = ri + 1 /\ err' = err

\* check_for_updates returns to the for loop of main
PassReturn == pc' = "main_loop" /\ ri' = ri + 1 /\ err' = err

\* the locals of a frame of check_for_updates that has just been entered or left
FreshLocals ==
    /\ sec' = 1 /\ kv_pair' = NullEntry /\ ki' = 0 /\ cnt' = ZeroCnt
    /\ inc' = Unbound /\ plg' = Unbound /\ remote' = <<>> /\ hashes_match' = FALSE
    /\ warned' = FALSE
    /\ ev' = <<>>

\* lines 447-448 and 232-244: the next recipe's manifest is fetched.  json_data
\* is an input that is only read: the model draws each part of it when the
\* loops below read it.
CheckForUpdates ==
    /\ pc = "main_loop"
    /\ ri <= NumRecipes
    /\ FreshLocals
    /\ UNCHANGED taken
    /\ req' = NoReq /\ latest_ver' = NoVer
    /\ \E code \in StatusCodes :
          LET got == get_url_contents(cfg.recipes[ri], code)
          IN  /\ net' = IF got = "AssertionError" THEN NoNet
                        ELSE Request(cfg.recipes[ri], code)
              /\ IF got \in {"AssertionError", "HTTPError"}
                 THEN Raise(got) /\ UNCHANGED ri
                 ELSE IF got = "None" THEN PassReturn
                 ELSE pc' = "section" /\ UNCHANGED <<ri, err>>
    /\ UNCHANGED <<cfg, fs, run, zip_url, archive>>

\* line 447: the for loop of main is exhausted
MainDone ==
    /\ pc = "main_loop"
    /\ ri > NumRecipes
    /\ pc' = "done"
    /\ req' = NoReq /\ latest_ver' = NoVer
    /\ net' = NoNet
    /\ UNCHANGED <<cfg, fs, run, err, ri, zip_url, archive>>
    /\ UNCHANGED passVars

\* a section loop that walks the kv_pairs of "updater" like those of "plugins"
Section_ActsOnUpdater ==
    /\ pc = "section"
    /\ net' = NoNet
    /\ IF sec > Len(root_sections)
       THEN PassReturn /\ FreshLocals
       ELSE /\ \E present \in BOOLEAN :
                  IF ~present
                  THEN sec' = sec + 1 /\ UNCHANGED <<pc, ri, err, warned>>
                  ELSE pc' = "entry" /\ UNCHANGED <<sec, ri, err, warned>>
            /\ UNCHANGED <<kv_pair, ki, cnt, inc, plg, remote, hashes_match, ev>>
    /\ UNCHANGED <<cfg, fs, run, taken>>
    /\ UNCHANGED suVars

\* lines 247-254 and 436-439: the next root section, or the summary and return
Section ==
    /\ pc = "section"
    /\ net' = NoNet
    /\ IF sec > Len(root_sections)
       THEN PassReturn /\ FreshLocals
       ELSE /\ \E present \in BOOLEAN :
                  IF ~present
                  THEN sec' = sec + 1 /\ UNCHANGED <<pc, ri, err, warned>>
                  ELSE IF root_sections[sec] = "updater"
                  THEN sec' = sec + 1 /\ warned' = TRUE /\ UNCHANGED <<pc, ri, err>>
                  ELSE pc' = "entry" /\ UNCHANGED <<sec, ri, err, warned>>
            /\ UNCHANGED <<kv_pair, ki, cnt, inc, plg, remote, hashes_match, ev>>
    /\ UNCHANGED <<cfg, fs, run, taken>>
    /\ UNCHANGED suVars

\* lines 255-257: the next kv_pair of the section, or the end of kv_pairs
Entry ==
    /\ pc = "entry"
    /\ net' = NoNet
    /\ \/ /\ pc' = "section" /\ sec' = sec + 1
          /\ UNCHANGED <<taken, kv_pair, ki, ev>>
       \/ /\ taken < MaxEntries
          /\ \E e \in Entries :
                /\ taken' = taken + 1
                /\ kv_pair' = e
                /\ ev' = <<>>
                /\ IF e.null
                   THEN UNCHANGED <<pc, ki>>
                   ELSE pc' = "key" /\ ki' = 1
          /\ UNCHANGED sec
    /\ UNCHANGED <<cfg, fs, run, err, ri, cnt, inc, plg, remote, hashes_match, warned>>
    /\ UNCHANGED suVars

InSection(name) == sec <= Len(root_sections) /\ root_sections[sec] = name

AtKey == pc = "key" /\ ki <= Len(kv_pair.items)

key == kv_pair.items[ki].key
value == kv_pair.items[ki].value

\* the rest of this section's state is left alone by a step on one item
ItemFrame == UNCHANGED <<cfg, run, ri, sec, taken, kv_pair, warned>> /\ UNCHANGED suVars

\* the for loop over kv_pair.items() goes on with the next item
NextItem == pc' = "key" /\ ki' = ki + 1 /\ err' = err

\* line 258: the items of kv_pair are exhausted
KeyEnd ==
    /\ pc = "key"
    /\ ki > Len(kv_pair.items)
    /\ pc' = "entry"
    /\ kv_pair' = NullEntry /\ ki' = 0 /\ ev' = <<>> /\ hashes_match' = FALSE
    /\ remote' = <<>>
    /\ net' = NoNet
    /\ UNCHANGED <<fs, err, cnt, inc, plg>>
    /\ UNCHANGED <<cfg, run, ri, sec, taken, warned>> /\ UNCHANGED suVars

\* an item that is neither "name" nor "source_url": only print_debug
OtherKey ==
    /\ AtKey
    /\ key \notin {"name", "source_url"}
    /\ NextItem
    /\ net' = NoNet
    /\ UNCHANGED <<fs, cnt, inc, plg, remote, hashes_match, ev>>
    /\ ItemFrame

\* lines 260-265
IncludeName ==
    /\ AtKey /\ InSection("includes")
    /\ key = "name"
    /\ inc' = [bound |-> TRUE, name |-> value, path |-> IncPath(value),
               exists |-> fs[IncPath(value)].exists]
    /\ cnt' = [cnt EXCEPT !.incs_processed = @ + 1]
    /\ NextItem
    /\ net' = NoNet
    /\ UNCHANGED <<fs, plg, remote, hashes_match, ev>>
    /\ ItemFrame

\* lines 269-278: the remote include is fetched
IncludeSourceUrl ==
    /\ AtKey /\ InSection("includes")
    /\ key = "source_url"
    /\ \E code \in StatusCodes, body \in Contents :
          LET got == get_url_contents(value, code)
          IN  /\ net' = IF got = "AssertionError" THEN NoNet ELSE Request(value, code)
              /\ IF got \in {"AssertionError", "HTTPError"}
                 THEN Raise(got) /\ UNCHANGED <<ki, remote, ev>>
                 ELSE IF got = "None"
                 THEN /\ IF inc.bound THEN NextItem
                         ELSE Raise("UnboundLocalError") /\ UNCHANGED ki
                      /\ ev' = Append(ev, "fetch_none")
                      /\ UNCHANGED remote
                 ELSE /\ remote' = body
                      /\ ev' = Append(ev, "fetch")
                      /\ pc' = "inc_open"
                      /\ UNCHANGED <<ki, err>>
    /\ UNCHANGED <<fs, cnt, inc, plg, hashes_match>>
    /\ ItemFrame

\* an open-and-compare that never finds the hashes equal
OpenAndCompare_NeverMatches(loc) ==
    IF ~loc.bound
    THEN [exc |-> "UnboundLocalError", file |-> Missing, hashes_match |-> FALSE]
    ELSE IF ~loc.exists
    THEN [exc |-> "none", file |-> File(<<>>), hashes_match |-> FALSE]
    ELSE IF ~fs[loc.path].exists
    THEN [exc |-> "FileNotFoundError", file |-> Missing, hashes_match |-> FALSE]
    ELSE [exc |-> "none", file |-> fs[loc.path], hashes_match |-> FALSE]

\* lines 280-290 (351-361): the local file is opened, "r+" or "w", and compared.
\* Gives the step's outcome for the locals loc: the exception raised or "none",
\* the file after the open, and hashes_match.
OpenAndCompare(loc) ==
    IF ~loc.bound
    THEN [exc |-> "UnboundLocalError", file |-> Missing, hashes_match |-> FALSE]
    ELSE IF ~loc.exists
    THEN [exc |-> "none", file |-> File(<<>>), hashes_match |-> FALSE]
    ELSE IF ~fs[loc.path].exists
    THEN [exc |-> "FileNotFoundError", file |-> Missing, hashes_match |-> FALSE]
    ELSE LET local == get_file_hash(cfg.encoding, fs[loc.path].data)
         IN  IF local.raised
             THEN [exc |-> "UnicodeEncodeError", file |-> fs[loc.path],
                   hashes_match |-> FALSE]
             ELSE [exc |-> "none", file |-> fs[loc.path],
                   hashes_match |-> (local.hash = get_data_hash(remote))]

\* lines 301-305 (371-375): the remote bytes are decoded and written as text
WriteRemote(loc) ==
    LET text == Decode(cfg.encoding, remote)
    IN  IF text.ok
        THEN [exc |-> "none", file |-> File(Utf8Encode(text.val))]
        ELSE [exc |-> text.exc, file |-> fs[loc.path]]

\* a verification whose assert statements are compiled away (python -O)
VerifyWritten_Unasserted(loc) ==
    LET new == get_file_hash(cfg.encoding, fs[loc.path].data)
    IN  IF new.raised THEN [exc |-> "UnicodeEncodeError", hashes_match |-> FALSE]
        ELSE [exc |-> "none", hashes_match |-> (new.hash = get_data_hash(remote))]

\* lines 311-321 (381-392): the file is read again and the hashes compared
VerifyWritten(loc) ==
    IF ~fs[loc.path].exists THEN [exc |-> "AssertionError", hashes_match |-> FALSE]
    ELSE LET new == get_file_hash(cfg.encoding, fs[loc.path].data)
         IN  IF new.raised THEN [exc |-> "UnicodeEncodeError", hashes_match |-> FALSE]
             ELSE IF new.hash = get_data_hash(remote)
             THEN [exc |-> "none", hashes_match |-> TRUE]
             ELSE [exc |-> "AssertionError", hashes_match |-> FALSE]

\* lines 280-295, 306
IncludeOpen ==
    /\ pc = "inc_open"
    /\ LET r == OpenAndCompare(inc)
       IN  /\ hashes_match' = r.hashes_match
           /\ IF r.exc # "none"
              THEN Raise(r.exc) /\ UNCHANGED <<fs, ki, ev>>
              ELSE /\ fs' = [fs EXCEPT ![inc.path] = r.file]
                   /\ ev' = Append(ev, IF inc.exists THEN "open_r+" ELSE "open_w")
                   /\ IF r.hashes_match
                      THEN NextItem
                      ELSE pc' = "inc_write" /\ UNCHANGED <<ki, err>>
    /\ net' = NoNet
    /\ UNCHANGED <<cnt, inc, plg, remote>>
    /\ ItemFrame

\* lines 296-306
IncludeWrite ==
    /\ pc = "inc_write"
    /\ LET w == WriteRemote(inc)
       IN  IF w.exc # "none"
           THEN Raise(w.exc) /\ UNCHANGED <<fs, ev>>
           ELSE /\ fs' = [fs EXCEPT ![inc.path] = w.file]
                /\ ev' = Append(ev, "write")
                /\ pc' = "inc_verify"
                /\ UNCHANGED err
    /\ net' = NoNet
    /\ UNCHANGED <<ki, cnt, inc, plg, remote, hashes_match>>
    /\ ItemFrame

\* lines 308-328
IncludeVerify ==
    /\ pc = "inc_verify"
    /\ LET v == VerifyWritten(inc)
       IN  /\ hashes_match' = v.hashes_match
           /\ IF v.exc # "none"
              THEN Raise(v.exc) /\ UNCHANGED <<ki, cnt, ev>>
              ELSE /\ cnt' = [cnt EXCEPT !.incs_updated = @ + 1]
                   /\ ev' = ev \o <<"verify", "count">>
                   /\ NextItem
    /\ net' = NoNet
    /\ UNCHANGED <<fs, inc, plg, remote>>
    /\ ItemFrame

\* lines 331-336
PluginName ==
    /\ AtKey /\ InSection("plugins")
    /\ key = "name"
    /\ plg' = [bound |-> TRUE, name |-> value, path |-> SrcPath(value),
               exists |-> fs[SrcPath(value)].exists]
    /\ cnt' = [cnt EXCEPT !.plugins_processed = @ + 1]
    /\ NextItem
    /\ net' = NoNet
    /\ UNCHANGED <<fs, inc, remote, hashes_match, ev>>
    /\ ItemFrame

\* lines 340-349: the remote plugin source is fetched
PluginSourceUrl ==
    /\ AtKey /\ InSection("plugins")
    /\ key = "source_url"
    /\ \E code \in StatusCodes, body \in Contents :
          LET got == get_url_contents(value, code)
          IN  /\ net' = IF got = "AssertionError" THEN NoNet ELSE Request(value, code)
              /\ IF got \in {"AssertionError", "HTTPError"}
                 THEN Raise(got) /\ UNCHANGED <<ki, remote, ev>>
                 ELSE IF got = "None"
                 THEN /\ IF plg.bound THEN NextItem
                         ELSE Raise("UnboundLocalError") /\ UNCHANGED ki
                      /\ ev' = Append(ev, "fetch_none")
                      /\ UNCHANGED remote
                 ELSE /\ remote' = body
                      /\ ev' = Append(ev, "fetch")
                      /\ pc' = "plg_open"
                      /\ UNCHANGED <<ki, err>>
    /\ UNCHANGED <<fs, cnt, inc, plg, hashes_match>>
    /\ ItemFrame

\* a plugin branch that goes on to the compiler when the hashes match
PluginOpen_CompilesUnchanged ==
    /\ pc = "plg_open"
    /\ LET r == OpenAndCompare(plg)
       IN  /\ hashes_match' = r.hashes_match
           /\ IF r.exc # "none"
              THEN Raise(r.exc) /\ UNCHANGED <<fs, ki, ev>>
              ELSE /\ fs' = [fs EXCEPT ![plg.path] = r.file]
                   /\ ev' = Append(ev, IF plg.exists THEN "open_r+" ELSE "open_w")
                   /\ pc' = (IF r.hashes_match THEN "plg_compile" ELSE "plg_write")
                   /\ UNCHANGED <<ki, err>>
    /\ net' = NoNet
    /\ UNCHANGED <<cnt, inc, plg, remote>>
    /\ ItemFrame

\* lines 351-366, 376
PluginOpen ==
    /\ pc = "plg_open"
    /\ LET r == OpenAndCompare(plg)
       IN  /\ hashes_match' = r.hashes_match
           /\ IF r.exc # "none"
              THEN Raise(r.exc) /\ UNCHANGED <<fs, ki, ev>>
              ELSE /\ fs' = [fs EXCEPT ![plg.path] = r.file]
                   /\ ev' = Append(ev, IF plg.exists THEN "open_r+" ELSE "open_w")
                   /\ IF r.hashes_match
                      THEN NextItem
                      ELSE pc' = "plg_write" /\ UNCHANGED <<ki, err>>
    /\ net' = NoNet
    /\ UNCHANGED <<cnt, inc, plg, remote>>
    /\ ItemFrame

\* lines 367-376
PluginWrite ==
    /\ pc = "plg_write"
    /\ LET w == WriteRemote(plg)
       IN  IF w.exc # "none"
           THEN Raise(w.exc) /\ UNCHANGED <<fs, ev>>
           ELSE /\ fs' = [fs EXCEPT ![plg.path] = w.file]
                /\ ev' = Append(ev, "write")
                /\ pc' = "plg_verify"
                /\ UNCHANGED err
    /\ net' = NoNet
    /\ UNCHANGED <<ki, cnt, inc, plg, remote, hashes_match>>
    /\ ItemFrame

\* a verification of the plugin source whose failure is only reported
PluginVerify_GoesOn ==
    /\ pc = "plg_verify"
    /\ LET v == VerifyWritten(plg)
       IN  /\ hashes_match' = v.hashes_match
           /\ ev' = IF v.exc # "none" THEN ev ELSE Append(ev, "verify")
           /\ pc' = "plg_compile"
           /\ UNCHANGED err
    /\ net' = NoNet
    /\ UNCHANGED <<fs, ki, cnt, inc, plg, remote>>
    /\ ItemFrame

\* lines 378-392
PluginVerify ==
    /\ pc = "plg_verify"
    /\ LET v == VerifyWritten(plg)
       IN  /\ hashes_match' = v.hashes_match
           /\ IF v.exc # "none"
              THEN Raise(v.exc) /\ UNCHANGED ev
              ELSE /\ ev' = Append(ev, "verify")
                   /\ pc' = "plg_compile"
                   /\ UNCHANGED err
    /\ net' = NoNet
    /\ UNCHANGED <<fs, ki, cnt, inc, plg, remote>>
    /\ ItemFrame

\* subprocess.run without check=True: no exit status raises
RunCompiler_Unchecked(returncode) == "none"

\* subprocess.run([compiler_path, local_source_path], check=True) when spcomp
\* exits with returncode: the exception raised, or "none"
RunCompiler(returncode) ==
    IF returncode # 0 THEN "CalledProcessError" ELSE "none"

\* how spcomp's exit is entered in ev
CompilerExit(returncode) == IF returncode = 0 THEN "compile_0" ELSE "compile_nonzero"

\* lines 394-409: spcomp is run on the source; it may leave <name>.smx in "."
PluginCompile ==
    /\ pc = "plg_compile"
    /\ IF ~fs[CompilerPath].exists
       THEN Raise("AssertionError") /\ UNCHANGED <<fs, ev>>
       ELSE \E returncode \in {0, 1}, deposits \in BOOLEAN :
               LET exc == RunCompiler(returncode)
               IN  IF exc # "none"
                   THEN /\ Raise(exc)
                        /\ ev' = Append(ev, CompilerExit(returncode))
                        /\ UNCHANGED fs
                   ELSE /\ fs' = IF deposits
                                 THEN [fs EXCEPT ![CwdSmx(plg.name)] = File(<<>>)]
                                 ELSE fs
                        /\ ev' = Append(ev, CompilerExit(returncode))
                        /\ pc' = "plg_install"
                        /\ UNCHANGED err
    /\ net' = NoNet
    /\ UNCHANGED <<ki, cnt, inc, plg, remote, hashes_match>>
    /\ ItemFrame

\* an install that counts the plugin whether or not the move succeeded
PluginInstall_CountsFailedMove ==
    /\ pc = "plg_install"
    /\ IF ~fs[CwdSmx(plg.name)].exists
       THEN Raise("AssertionError") /\ UNCHANGED <<fs, ki, cnt, ev>>
       ELSE \E moved \in BOOLEAN :
               /\ fs' = IF moved
                        THEN [fs EXCEPT ![PluginSmx(plg.name)] = fs[CwdSmx(plg.name)],
                                        ![CwdSmx(plg.name)] = Missing]
                        ELSE fs
               /\ cnt' = [cnt EXCEPT !.plugins_updated = @ + 1]
               /\ ev' = ev \o <<"install", "count">>
               /\ NextItem
    /\ net' = NoNet
    /\ UNCHANGED <<inc, plg, remote, hashes_match>>
    /\ ItemFrame

\* lines 411-434: <name>.smx is moved into the plugins directory and counted
PluginInstall ==
    /\ pc = "plg_install"
    /\ IF ~fs[CwdSmx(plg.name)].exists
       THEN Raise("AssertionError") /\ UNCHANGED <<fs, ki, cnt, ev>>
       ELSE \E moved \in BOOLEAN :
               IF ~moved
               THEN Raise("OSError") /\ UNCHANGED <<fs, ki, cnt, ev>>
               ELSE /\ fs' = [fs EXCEPT ![PluginSmx(plg.name)] = fs[CwdSmx(plg.name)],
                                        ![CwdSmx(plg.name)] = Missing]
                    /\ cnt' = [cnt EXCEPT !.plugins_updated = @ + 1]
                    /\ ev' = ev \o <<"install", "count">>
                    /\ NextItem
    /\ net' = NoNet
    /\ UNCHANGED <<inc, plg, remote, hashes_match>>
    /\ ItemFrame

(* ------------------------------------------------------------------ *)
(* The next scheduled run                                               *)
(* ------------------------------------------------------------------ *)
Ended == pc \in {"done", "crashed", "exited"}

\* "python ./soup.py" is started again, on the files the last run left, as long
\* as soup.py is still this version of the script
NewRun ==
    /\ Ended
    /\ run < MaxRuns
    /\ fs[SelfPath] = File(SCRIPT_VERSION)
    /\ run' = run + 1
    /\ pc' = "self_update"
    /\ err' = "none"
    /\ req' = NoReq /\ latest_ver' = NoVer /\ zip_url' = "" /\ archive' = NoArchive
    /\ ri' = 1
    /\ FreshLocals
    /\ net' = NoNet
    /\ UNCHANGED <<cfg, fs, taken>>

(* ------------------------------------------------------------------ *)
(* The specification                                                    *)
(* ------------------------------------------------------------------ *)
Next ==
    \/ SelfUpdateCheck
    \/ SelfUpdateRef
    \/ SelfUpdateDownload
    \/ SelfUpdateWriteReqs
    \/ SelfUpdatePipenv
    \/ SelfUpdateWriteSelf
    \/ SelfUpdateRestart
    \/ CheckForUpdates
    \/ MainDone
    \/ Section
    \/ Entry
    \/ KeyEnd
    \/ OtherKey
    \/ IncludeName
    \/ IncludeSourceUrl
    \/ IncludeOpen
    \/ IncludeWrite
    \/ IncludeVerify
    \/ PluginName
    \/ PluginSourceUrl
    \/ PluginOpen
    \/ PluginWrite
    \/ PluginVerify
    \/ PluginCompile
    \/ PluginInstall

\* one run of the script
Spec == Init /\ [][Next]_vars

\* the interpreter runs the next statement whenever there is one
FairSpec == Spec /\ WF_vars(Next)

\* the script run again and again by its schedule
RunsNext ==
    \/ Next
    \/ NewRun

\* the followed runs are those of one installation: UTF-8, every recipe https
RunsInit ==
    /\ Init
    /\ cfg = [encoding |-> "utf-8",
              recipes |-> [i \in 1..NumRecipes |-> "https://r/recipe.json"]]

RunsSpec == RunsInit /\ [][RunsNext]_vars

TypeOK ==
    /\ pc \in {"self_update", "su_ref", "su_download", "su_write_reqs", "su_pipenv",
               "su_write_self", "su_restart", "exited", "main_loop", "section",
               "entry", "key", "inc_open", "inc_write", "inc_verify", "plg_open",
               "plg_write", "plg_verify", "plg_compile", "plg_install", "done",
               "crashed"}
    /\ ri \in 1..(NumRecipes + 1)
    /\ sec \in 1..(Len(root_sections) + 1)
    /\ taken \in 0..MaxEntries
    /\ run \in 1..MaxRuns
    /\ warned \in BOOLEAN
    /\ \A p \in Paths : fs[p] \in [exists : BOOLEAN, data : Seq(0..255)]

(* ------------------------------------------------------------------ *)
(* Vocabulary of the properties                                         *)
(* ------------------------------------------------------------------ *)
Last(s) == s[Len(s)]
Has(s, e) == \E i \in 1..Len(s) : s[i] = e
EndsWith(s, t) == Len(s) >= Len(t) /\ SubSeq(s, Len(s) - Len(t) + 1, Len(s)) = t

\* the locals of the section that is being walked
cur == IF InSection("includes") THEN inc ELSE plg

\* the path that a name has in the section that is being walked
PathOf(n) == IF InSection("includes") THEN IncPath(n) ELSE SrcPath(n)

\* kv_pair lists "name" before its k-th item
NameBefore(k) == \E j \in 1..(k - 1) : j <= Len(kv_pair.items) /\ kv_pair.items[j].key = "name"

\* the name that kv_pair gives
EntryName == kv_pair.items[CHOOSE j \in 1..Len(kv_pair.items) :
                               kv_pair.items[j].key = "name"].value

\* the fingerprint that re-reading a path gives now
OnDisk(path) == get_file_hash(cfg.encoding, fs[path].data)
Fingerprint(h) == [raised |-> FALSE, hash |-> h]

\* the item of kv_pair whose source_url is being synced
Syncing == pc \in {"inc_open", "inc_write", "inc_verify",
                   "plg_open", "plg_write", "plg_verify", "plg_compile", "plg_install"}

\* semver's "strictly greater", written out on its own
Newer(a, b) ==
    \/ a[1] > b[1]
    \/ a[1] = b[1] /\ a[2] > b[2]
    \/ a[1] = b[1] /\ a[2] = b[2] /\ a[3] > b[3]

UpdatePath == {"su_download", "su_write_reqs", "su_pipenv", "su_write_self",
               "su_restart", "exited"}

(* ------------------------------------------------------------------ *)
(* Properties                                                           *)
(* ------------------------------------------------------------------ *)
\* C1: a compiler that exits non-zero ends only the plugin entry: the process is
\* not ended by it, so later entries and later recipes are still processed.
C1_CompileFailureEndsOnlyTheEntry ==
    (ev # <<>> /\ Last(ev) = "compile_nonzero") => pc # "crashed"

C1_Witness ==
    /\ pc = "crashed" /\ err = "CalledProcessError"
    /\ ev = <<"fetch", "open_w", "write", "verify", "compile_nonzero">>
    /\ ri = 1 /\ NumRecipes > 1

\* C2: once the compiler has exited non-zero for a plugin entry, the source file
\* re-reads to the fingerprint of the new remote content (and is the file of the
\* entry's name), nothing was installed or counted for the entry, nothing is
\* processed after it, and the failing step changed no file and no counter.
C2_FailedCompile ==
    /\ [](Has(ev, "compile_nonzero") =>
            /\ OnDisk(plg.path) = Fingerprint(get_data_hash(remote))
            /\ Has(ev, "write")
            /\ (NameBefore(ki) => plg.path = SrcPath(EntryName))
            /\ ~Has(ev, "install") /\ ~Has(ev, "count")
            /\ pc = "crashed")
    /\ [][(Has(ev', "compile_nonzero") /\ ~Has(ev, "compile_nonzero")) =>
            /\ pc = "plg_compile"
            /\ cnt' = cnt
            /\ fs' = fs]_vars
    /\ [][Has(ev, "compile_nonzero") =>
            (cnt' = cnt /\ \A n \in Names : fs'[PluginSmx(n)] = fs[PluginSmx(n)])]_vars

C2_Witness ==
    /\ ev = <<"fetch", "open_r+", "write", "verify", "compile_nonzero">>
    /\ NameBefore(ki)
    /\ cnt.plugins_updated = 0
    /\ ~fs[PluginSmx(plg.name)].exists

\* C3: a source_url answered with a 5xx status, in a section that has bound a
\* name, changes no file and no counter, and the loop goes on with the next item
\* of the same pass.
C3_TransientFetchSkipsOnlyTheEntry ==
    [][(/\ AtKey /\ key = "source_url" /\ cur.bound
        /\ net'.url = value /\ http_code_first_digit(net'.status) = 5) =>
            /\ fs' = fs
            /\ cnt' = cnt
            /\ pc' = "key" /\ ki' = ki + 1
            /\ err' = "none"
            /\ <<ri, sec, kv_pair>>' = <<ri, sec, kv_pair>>]_vars

C3_Witness ==
    /\ pc = "key"
    /\ ev = <<"fetch_none">>
    /\ NameBefore(ki - 1)
    /\ http_code_first_digit(net.status) = 5
    /\ cnt.incs_processed = 1 /\ cnt.incs_updated = 0

\* C4: from the moment a sync has verified its write, and as long as the entry's
\* path is the one that was synced, re-reading the file gives the fingerprint of
\* the remote content; and a step that raises an updated counter leaves the file
\* with that fingerprint.
C4_UpdatedIsVerifiedOnDisk ==
    /\ []((Has(ev, "verify") /\ (Syncing \/ (pc = "key" /\ kv_pair.items[ki - 1].key = "source_url")))
            => OnDisk(cur.path) = Fingerprint(get_data_hash(remote)))
    /\ [][(cnt'.incs_updated > cnt.incs_updated) =>
            get_file_hash(cfg.encoding, fs'[inc.path].data)
                = Fingerprint(get_data_hash(remote))]_vars
    /\ [][(cnt'.plugins_updated > cnt.plugins_updated) =>
            get_file_hash(cfg.encoding, fs'[plg.path].data)
                = Fingerprint(get_data_hash(remote))]_vars

C4_Witness ==
    /\ pc = "key"
    /\ ev = <<"fetch", "open_w", "write", "verify", "count">>
    /\ cfg.encoding = "latin-1"
    /\ remote = LoneE9
    /\ fs[inc.path].data # remote

\* C5: a sync that opened its file and found it missing, or with another
\* fingerprint than the remote content, ends Updated (and not in an exception).
C5_FirstSyncIsUpdated ==
    ~(/\ pc = "crashed"
      /\ ev # <<>> /\ Last(ev) \in {"open_w", "open_r+", "write"}
      /\ ~hashes_match)

C5_Witness ==
    /\ pc = "crashed" /\ err = "AssertionError"
    /\ cfg.encoding = "utf-8-sig" /\ remote = TextA
    /\ ev = <<"fetch", "open_w", "write">>
    /\ fs[cur.path] = File(TextA)

\* C6: when the file of the entry's name exists and re-reads to the fingerprint
\* of the fetched content, the sync writes nothing, changes no counter and goes
\* straight on to the next item, with no compile and no install.
C6_UnchangedDoesNothing ==
    [][(/\ pc \in {"inc_open", "plg_open"}
        /\ NameBefore(ki)
        /\ fs[PathOf(EntryName)].exists
        /\ OnDisk(PathOf(EntryName)) = Fingerprint(get_data_hash(remote))) =>
            /\ fs' = fs
            /\ cnt' = cnt
            /\ pc' = "key" /\ ki' = ki + 1
            /\ ev' = Append(ev, "open_r+")]_vars

C6_Witness ==
    /\ pc = "key"
    /\ InSection("plugins")
    /\ ev = <<"fetch", "open_r+">>
    /\ NameBefore(ki - 1)
    /\ hashes_match
    /\ cnt.plugins_processed = 1 /\ cnt.plugins_updated = 0

\* C7: includes_updated is raised only by the step that re-read a written file
\* and found the remote fingerprint; plugins_updated only by the step that moved
\* <name>.smx into the plugins directory, after a write, its verification and a
\* compiler run that exited zero, with the compiler binary in place.
C7_CountedOnlyAfterSuccess ==
    [][/\ (cnt'.incs_updated > cnt.incs_updated) =>
            /\ pc = "inc_verify"
            /\ EndsWith(ev, <<"write">>)
            /\ OnDisk(inc.path) = Fingerprint(get_data_hash(remote))
            /\ cnt'.incs_updated = cnt.incs_updated + 1
       /\ (cnt'.plugins_updated > cnt.plugins_updated) =>
            /\ pc = "plg_install"
            /\ EndsWith(ev, <<"write", "verify", "compile_0">>)
            /\ fs[CompilerPath].exists
            /\ fs[CwdSmx(plg.name)].exists
            /\ fs'[PluginSmx(plg.name)].exists /\ ~fs'[CwdSmx(plg.name)].exists
            /\ cnt'.plugins_updated = cnt.plugins_updated + 1]_vars

C7_Witness ==
    /\ InSection("plugins")
    /\ ev = <<"fetch", "open_w", "write", "verify", "compile_0", "install", "count">>
    /\ cnt.plugins_updated = 1
    /\ fs[PluginSmx(plg.name)].exists

\* C8: a manifest whose fetch is answered with a 5xx status ends that recipe's
\* pass at once: no file changes, the counters are zero, nothing was done for any
\* entry, no exception, and main goes on with the next recipe.
C8_ManifestNoneEndsThePass ==
    [][(/\ pc = "main_loop" /\ ri <= NumRecipes
        /\ net'.url = cfg.recipes[ri] /\ http_code_first_digit(net'.status) = 5) =>
            /\ fs' = fs
            /\ cnt' = ZeroCnt
            /\ ev' = <<>>
            /\ err' = "none"
            /\ pc' = "main_loop" /\ ri' = ri + 1]_vars

C8_Witness ==
    /\ pc = "main_loop"
    /\ ri = 2 /\ ri <= NumRecipes
    /\ net = Request(cfg.recipes[1], 503)
    /\ cnt = ZeroCnt
    /\ err = "none"

\* C9: the steps of the update path are reached only with a latest version
\* strictly greater than the running one; a verified release query with such a
\* version goes on to the ref query, and a verified ref query to the download; a
\* verified release query with any other version returns to main with no file
\* changed; and outside the update path soup.py and requirements.txt are as they
\* were.
C9_UpdateIffNewer ==
    /\ [](pc \in UpdatePath => Newer(latest_ver, SCRIPT_VERSION))
    /\ []((fs[SelfPath] # File(SCRIPT_VERSION) \/ fs[ReqsPath].exists)
            => Newer(latest_ver, SCRIPT_VERSION))
    /\ [][(pc = "self_update" /\ verify_gh_api_req(req') = "True" /\ err' = "none") =>
            IF Newer(latest_ver', SCRIPT_VERSION)
            THEN pc' = "su_ref" /\ fs' = fs
            ELSE pc' = "main_loop" /\ ri' = 1 /\ fs' = fs]_vars
    /\ [][(pc = "su_ref" /\ verify_gh_api_req(req') = "True") =>
            pc' = "su_download"]_vars

C9_Witness ==
    /\ pc = "exited"
    /\ latest_ver = <<1, 7, 0>>
    /\ fs[SelfPath] = File(<<1, 7, 0>>)

\* C10: a release-API response with a 5xx status, or with X-RateLimit-Remaining
\* at zero, makes self_update return to main with no file changed and no
\* exception.
C10_TransientReleaseQueryReturns ==
    [][(/\ pc \in {"self_update", "su_ref"}
        /\ \/ http_code_first_digit(req'.status_code) = 5
           \/ req'.headers.remaining /\ req'.headers.remaining_value = 0) =>
            /\ pc' = "main_loop"
            /\ err' = "none"
            /\ fs' = fs]_vars

C10_Witness ==
    /\ pc = "crashed" /\ err = "HTTPError"
    /\ net = Request(GH_RELEASES, 403)
    /\ req.headers.remaining /\ req.headers.remaining_value = 0

\* C11: once soup.py has been touched by self_update the process is at the
\* restart or has ended, and never in main's loop or in a recipe pass; the
\* restart step ends the process, whatever the child's exit status, with no file
\* changed and no request made; and after the restart the process takes no step.
C11_RestartNeverReturns ==
    /\ []((Has(ev, "write_self") \/ fs[SelfPath] # File(SCRIPT_VERSION))
            => pc \in {"su_restart", "exited", "crashed"})
    /\ [][(pc = "su_restart") =>
            /\ pc' \in {"exited", "crashed"}
            /\ ev' = Append(ev, "restart")
            /\ fs' = fs /\ net' = NoNet /\ ri' = ri /\ cnt' = cnt]_vars
    /\ [][~Has(ev, "restart")]_vars

C11_Witness ==
    /\ pc = "crashed" /\ err = "CalledProcessError"
    /\ Last(ev) = "restart"
    /\ fs[SelfPath] = File(latest_ver)
    /\ ri = 1 /\ cnt = ZeroCnt

\* C12: every request that is made, for a manifest, a source, a release query
\* or the release archive, is for a URL that starts with https://.
C12_OnlyHttpsIsFetched ==
    net.url # "" => startswith_https(net.url)

C12_Witness ==
    /\ pc = "su_write_reqs"
    /\ net = Request("http://mirror/zipball", 200)
    /\ zip_url = net.url

\* C13: whenever the file of a sync has been opened for the source_url of a
\* kv_pair, that kv_pair has a name and the path that was opened is the path of
\* that name.
C13_PathIsOfTheEntryItself ==
    (\/ pc \in {"inc_write", "inc_verify", "plg_write", "plg_verify",
                "plg_compile", "plg_install"}
     \/ /\ pc = "key" /\ ki > 1 /\ kv_pair.items[ki - 1].key = "source_url"
        /\ ev # <<>> /\ Last(ev) # "fetch_none")
        => \E j \in 1..Len(kv_pair.items) :
              /\ kv_pair.items[j].key = "name"
              /\ cur.path = PathOf(kv_pair.items[j].value)

C13_Witness ==
    /\ pc = "key"
    /\ InSection("includes")
    /\ kv_pair = Obj(<<KV("source_url", SourceUrl("bar")), KV("name", "bar")>>)
    /\ ev = <<"fetch", "open_r+", "write", "verify", "count">>
    /\ inc.path = IncPath("foo")
    /\ net = NoNet

\* C14: the step of the section loop on "updater" only moves to the end of the
\* sections (printing the warning when the key is there): it makes no request,
\* changes no file and no counter, and reads no kv_pair; and no kv_pair is ever
\* walked, nothing fetched, synced, compiled or installed, in that section.
C14_UpdaterIsIgnored ==
    /\ [][(pc = "section" /\ InSection("updater")) =>
            /\ pc' = "section" /\ sec' = sec + 1
            /\ fs' = fs /\ cnt' = cnt /\ net' = NoNet
            /\ <<taken, kv_pair, ki, inc, plg, remote, ev, err, ri>>'
                  = <<taken, kv_pair, ki, inc, plg, remote, ev, err, ri>>]_vars
    /\ [](InSection("updater") => pc = "section")
    /\ [][(pc = "section" /\ sec > Len(root_sections)) =>
            (fs' = fs /\ pc' = "main_loop" /\ err' = "none")]_vars

C14_Witness ==
    /\ pc = "section"
    /\ sec > Len(root_sections)
    /\ warned
    /\ cnt.incs_updated = 1 /\ cnt.plugins_updated = 1

\* C15: when the file re-read after the write does not give the fingerprint of
\* the remote content, the verification step ends in an exception with no
\* counter and no file changed and nothing entered for the entry; an ended
\* process takes no further step, so nothing is compiled or installed.
C15_MismatchHaltsTheEntry ==
    /\ [][(/\ pc \in {"inc_verify", "plg_verify"}
           /\ OnDisk(cur.path) # Fingerprint(get_data_hash(remote))) =>
            /\ pc' = "crashed" /\ err' # "none"
            /\ cnt' = cnt
            /\ fs' = fs
            /\ ev' = ev]_vars
    /\ [][pc # "crashed"]_vars
    /\ []((Has(ev, "compile_0") \/ Has(ev, "compile_nonzero") \/ Has(ev, "install"))
            => Has(ev, "verify"))

C15_Witness ==
    /\ pc = "crashed" /\ err = "AssertionError"
    /\ InSection("plugins")
    /\ ev = <<"fetch", "open_r+", "write">>
    /\ OnDisk(plg.path) # Fingerprint(get_data_hash(remote))
    /\ cnt.plugins_updated = 0
    /\ \A n \in Names : ~fs[PluginSmx(n)].exists /\ ~fs[CwdSmx(n)].exists

\* C16: pipenv runs only after requirements.txt has been written from the
\* archive; soup.py is changed only by the step that follows a pipenv run that
\* exited zero; the restart only follows the write of soup.py; and once pipenv
\* has exited non-zero, soup.py is as it was, and the process has ended with no
\* restart.
C16_SelfUpdateOrder ==
    /\ [](pc = "su_pipenv" => (ev = <<"write_reqs">> /\ fs[ReqsPath] = File(latest_ver)))
    /\ [][(Has(ev', "pipenv_0") /\ ~Has(ev, "pipenv_0")) => pc = "su_pipenv"]_vars
    /\ [][(fs'[SelfPath] # fs[SelfPath]) =>
            (pc = "su_write_self" /\ ev = <<"write_reqs", "pipenv_0">>)]_vars
    /\ [][(Has(ev', "restart") /\ ~Has(ev, "restart")) =>
            (ev = <<"write_reqs", "pipenv_0", "write_self">>
                /\ fs[SelfPath] = File(latest_ver))]_vars
    /\ [](Has(ev, "pipenv_nonzero") =>
            /\ pc = "crashed" /\ err = "CalledProcessError"
            /\ fs[SelfPath] = File(SCRIPT_VERSION)
            /\ ~Has(ev, "write_self") /\ ~Has(ev, "restart"))

C16_Witness ==
    /\ pc = "exited"
    /\ ev = <<"write_reqs", "pipenv_0", "write_self", "restart">>
    /\ fs[ReqsPath] = File(latest_ver)
    /\ fs[SelfPath] = File(latest_ver)

\* the file at path is there and is no UTF-8 text
Undecodable(path) == fs[path].exists /\ ~Utf8Decode(fs[path].data).ok

\* C17: a local file that exists and cannot be decoded raises nothing in the
\* compare step: the hashes do not match and the sync goes on to the write; the
\* write stores the remote text (when the remote bytes decode) and goes on to
\* the verification; and a verification that finds the remote fingerprint
\* counts the include, or goes on to compile the plugin.
C17_UndecodableLocalIsRewritten ==
    /\ [][(/\ pc \in {"inc_open", "plg_open"}
           /\ cur.bound /\ cur.exists /\ Undecodable(cur.path)) =>
            /\ err' = "none"
            /\ pc' = (IF pc = "inc_open" THEN "inc_write" ELSE "plg_write")
            /\ ~hashes_match'
            /\ ev' = Append(ev, "open_r+")
            /\ fs' = fs /\ cnt' = cnt]_vars
    /\ [][(/\ pc \in {"inc_write", "plg_write"}
           /\ Undecodable(cur.path)
           /\ Decode(cfg.encoding, remote).ok) =>
            /\ err' = "none"
            /\ pc' = (IF pc = "inc_write" THEN "inc_verify" ELSE "plg_verify")
            /\ fs'[cur.path] = File(Utf8Encode(Decode(cfg.encoding, remote).val))]_vars
    /\ [][(/\ pc \in {"inc_verify", "plg_verify"}
           /\ OnDisk(cur.path) = Fingerprint(get_data_hash(remote))) =>
            /\ err' = "none"
            /\ IF pc = "inc_verify"
               THEN pc' = "key" /\ cnt'.incs_updated = cnt.incs_updated + 1
               ELSE pc' = "plg_compile"]_vars

C17_Witness ==
    /\ InSection("includes")
    /\ run = 1 /\ ri = 1 /\ taken = 1
    /\ ev = <<"fetch", "open_r+", "write", "verify", "count">>
    /\ fs[SrcPath(inc.name)] = File(LoneE9)
    /\ fs[inc.path] = File(TextA)
    /\ cnt.incs_updated = 1

\* C18: over consecutive runs, the compiler is run only right after a write and
\* its verification for the same kv_pair, hence in the same run; a plugin is
\* installed or counted only for a kv_pair whose source was written; and a
\* plugin source that is there and re-reads to the remote fingerprint is left
\* as it is and the loop goes on, whether or not its .smx was ever installed.
C18_CompiledOnlyWhenWritten ==
    /\ [][(ev' # ev /\ ev' # <<>> /\ Last(ev') \in {"compile_0", "compile_nonzero"}) =>
            (EndsWith(ev, <<"write", "verify">>) /\ run' = run)]_vars
    /\ [][(\/ cnt'.plugins_updated > cnt.plugins_updated
           \/ \E n \in Names : fs'[PluginSmx(n)] # fs[PluginSmx(n)]) =>
            (Has(ev, "write") /\ Has(ev, "compile_0") /\ run' = run)]_vars
    /\ [][(/\ pc = "plg_open"
           /\ plg.bound /\ plg.exists /\ fs[plg.path].exists
           /\ OnDisk(plg.path) = Fingerprint(get_data_hash(remote))) =>
            /\ pc' = "key" /\ ki' = ki + 1
            /\ ev' = Append(ev, "open_r+")
            /\ fs' = fs /\ cnt' = cnt]_vars

C18_Witness ==
    /\ run = 2 /\ ri = 1 /\ taken = 2
    /\ InSection("plugins") /\ pc = "key"
    /\ plg.name = "foo"
    /\ ev = <<"fetch", "open_r+">> /\ hashes_match
    /\ cnt = [ZeroCnt EXCEPT !.plugins_processed = 1]
    /\ fs[SrcPath("foo")] # fs[SrcPath("bar")]
    /\ fs[IncPath("foo")] = fs[SrcPath("bar")] /\ fs[IncPath("bar")] = fs[SrcPath("bar")]
    /\ fs[CompilerPath].exists
    /\ \A n \in Names : ~fs[PluginSmx(n)].exists /\ ~fs[CwdSmx(n)].exists

\* C19: at every point of a pass, includes_updated <= includes_processed and
\* plugins_updated <= plugins_processed.
C19_UpdatedAtMostProcessed ==
    /\ cnt.incs_updated <= cnt.incs_processed
    /\ cnt.plugins_updated <= cnt.plugins_processed

C19_Witness ==
    /\ pc = "section" /\ sec > Len(root_sections)
    /\ cnt.incs_processed = 1
    /\ cnt.incs_updated = 2

\* C20: a step that fetches an include, counts one as processed or updated, or
\* changes an include file, is taken in a pass that has not yet bound a plugin
\* name and has counted no plugin; so everything done for the includes of a
\* pass comes before anything is done for its plugins.
C20_IncludesBeforePlugins ==
    [][(\/ pc' = "inc_open" /\ pc # "inc_open"
        \/ cnt'.incs_processed > cnt.incs_processed
        \/ cnt'.incs_updated > cnt.incs_updated
        \/ \E n \in Names : fs'[IncPath(n)] # fs[IncPath(n)]) =>
            /\ plg = Unbound
            /\ cnt.plugins_processed = 0 /\ cnt.plugins_updated = 0
            /\ InSection("includes")]_vars

C20_Witness ==
    /\ pc = "plg_compile"
    /\ cnt.incs_processed = 1 /\ cnt.incs_updated = 1
    /\ cnt.plugins_processed = 1
    /\ ev = <<"fetch", "open_r+", "write", "verify">>

====
